---- MODULE Spec2Model ----
(***************************************************************************)
(* DailyRoutines (AppDaemon application): the wake-preparation scheduler    *)
(* and the sleep/awake reactions, as a state machine.                       *)
(*                                                                          *)
(* Time is counted in ticks of 1/Res second, so that datetime.now() can     *)
(* fall between two whole seconds and int(total_seconds()) truncates.       *)
(* The host (AppDaemon) is the scheduler table `timers`, the subscription   *)
(* table `listeners` and the clock `now`; it runs one callback at a time.   *)
(***************************************************************************)
EXTENDS Integers, Sequences, FiniteSets, TLC

\* ------------------------------------------------------------- bounds
\* Ticks per second of the model's clock (datetime has microseconds).
Res == 2
\* The clock's grid: instants one preparation length apart, up to MaxGrid steps.
MaxGrid == 13

\* ------------------------------------------------------------- constants
FIVE_MINUTES_SECONDS == 5 * 60

Second == Res
Minute == 60 * Res
\* Ticks between two grid instants of the clock.
GridStep == FIVE_MINUTES_SECONDS * Second
\* Sub-second parts at which the host may deliver an event.
Fractions == {0, 1}
GridTimes == {k * GridStep + f : k \in 0..MaxGrid, f \in Fractions}

\* Python's None, for a handle, a scene or an instant.
None == 0

\* ------------------------------------------------------------- argument values
\* A value of self.args: ty is its Python type, s its text, v its number.
Absent == [ty |-> "absent", s |-> "", v |-> 0]
PyNone == [ty |-> "NoneType", s |-> "", v |-> 0]
PyStr(text) == [ty |-> "str", s |-> text, v |-> 0]
PyInt(n) == [ty |-> "int", s |-> "", v |-> n]
\* A float, by its text and its integral part (what int() makes of it).
PyFloat(text, whole) == [ty |-> "float", s |-> text, v |-> whole]

Keys == {"turn_off_lights_scene", "turn_off_ligts_scene", "ww_activate",
         "awake_state", "next_awake_time", "prep_offset_minutes",
         "goodmorning_lights_scene"}

\* The configured offsets, in minutes, the model is checked with.
OffsetMinutes == {-5, 0, 30}

BaseArgs == [k \in Keys |->
    CASE k = "turn_off_lights_scene" -> PyStr("scene.lights_off")
      [] k = "turn_off_ligts_scene" -> Absent
      [] k = "ww_activate" -> PyStr("switch.warm_water")
      [] k = "awake_state" -> PyStr("input_select.awake_state")
      [] k = "next_awake_time" -> PyStr("sensor.next_awake_time")
      [] k = "prep_offset_minutes" -> PyInt(30)
      [] k = "goodmorning_lights_scene" -> PyStr("scene.good_morning")]

\* The app configurations the model starts from.
ArgSets ==
    {[BaseArgs EXCEPT !["prep_offset_minutes"] = PyInt(m)] : m \in OffsetMinutes}
    \cup {[BaseArgs EXCEPT ![k] = Absent] : k \in Keys}
    \cup {[BaseArgs EXCEPT !["turn_off_lights_scene"] = Absent,
                           !["turn_off_ligts_scene"] = PyStr("scene.legacy_off")],
          [BaseArgs EXCEPT !["turn_off_ligts_scene"] = PyStr("scene.legacy_off")],
          [BaseArgs EXCEPT !["prep_offset_minutes"] = PyStr("abc")],
          [BaseArgs EXCEPT !["prep_offset_minutes"] = PyStr("30")],
          [BaseArgs EXCEPT !["prep_offset_minutes"] = PyStr("30.5")],
          [BaseArgs EXCEPT !["prep_offset_minutes"] = PyFloat("30.5", 30)],
          [BaseArgs EXCEPT !["goodmorning_lights_scene"] = PyStr("")]}

\* The UTC offsets, in minutes, of the process's local timezone.
LocalTzMinutes == {0, 15}

VARIABLES
    args,        \* self.args, the app's configuration
    phase,       \* "new" before initialize, then "running" or "failed"
    self,        \* the attributes initialize sets, the two handles included
    listeners,   \* the host's state-change subscriptions
    timers,      \* the host's scheduler: the armed, not yet fired timers
    now,         \* the host's clock, in ticks
    calls,       \* the service calls of the last callback, in order
    ops,         \* the scheduler calls of the last callback, in order
    logs,        \* the log levels of the last callback, in order
    raised,      \* the exception the last callback let out, or "" for none
    ev,          \* the last callback, its input and the state it started in
    ww,          \* the most recent warm-water command: "none", "on", "off"
    wake         \* the wake instant of the last parsed update, or None

vars == <<args, phase, self, listeners, timers, now, calls, ops, logs, raised, ev, ww, wake>>

\* ------------------------------------------------------------- the callback's machine
\* What a callback reads and writes while it runs; exc is the exception in
\* flight ("" for none) and ret the value of the last call.
Machine == [self |-> self, listeners |-> listeners, timers |-> timers,
            calls |-> <<>>, ops |-> <<>>, logs |-> <<>>, ww |-> ww, wake |-> wake,
            exc |-> "", ret |-> None]

\* One statement after another: F applied to the value v the statements
\* before it have produced.
Bind(v, F(_)) == CHOOSE r \in {F(x) : x \in {v}} : TRUE

log(st, level) == [st EXCEPT !.logs = Append(@, level)]

raise(st, exception) == [st EXCEPT !.exc = exception]

\* Host: a handle no armed timer and no stored reference uses.
UsedHandles(st) == {t.handle : t \in st.timers}
                   \cup {st.self._prep_timer_handle, st.self._prep_end_timer_handle}
FreshHandle(st) == CHOOSE h \in 1..(Cardinality(UsedHandles(st)) + 1) :
                       /\ h \notin UsedHandles(st)
                       /\ \A g \in 1..(h - 1) : g \in UsedHandles(st)

\* Host: arm a one-shot timer `delay` seconds from now; its handle is ret.
run_in(st, callback, delay) ==
    Bind(FreshHandle(st), LAMBDA h :
        [st EXCEPT !.timers = @ \cup {[handle |-> h, callback |-> callback,
                                       at |-> now + delay * Second]},
                   !.ops = Append(@, [op |-> "run_in", handle |-> h,
                                      callback |-> callback, delay |-> delay]),
                   !.ret = h])

\* Host: cancel a timer; a handle that is not armed is ignored.
cancel_timer(st, handle) ==
    [st EXCEPT !.timers = {t \in @ : t.handle # handle},
               !.ops = Append(@, [op |-> "cancel_timer", handle |-> handle,
                                  callback |-> "", delay |-> 0])]

\* Host: subscribe a callback to an entity's changes (new = "" for any value).
listen_state(st, callback, entity, new) ==
    [st EXCEPT !.listeners = @ \cup {[callback |-> callback, entity |-> entity,
                                      new |-> new]}]

\* Host: service calls. The last warm-water command is remembered in ww.
turn_on(st, entity) ==
    [st EXCEPT !.calls = Append(@, [service |-> "turn_on", entity |-> entity]),
               !.ww = IF entity = st.self.warm_water_entity THEN "on" ELSE @]

turn_off(st, entity) ==
    [st EXCEPT !.calls = Append(@, [service |-> "turn_off", entity |-> entity]),
               !.ww = IF entity = st.self.warm_water_entity THEN "off" ELSE @]

\* ------------------------------------------------------------- routines_actions.py
activate_turn_off_lights_scene(st) == turn_on(st, st.self.turn_off_lights_scene)

\* Python truthiness of an argument value.
Truthy(value) ==
    CASE value.ty = "NoneType" -> FALSE
      [] value.ty = "str" -> value.s # ""
      [] value.ty = "int" -> value.v # 0
      [] value.ty = "float" -> value.s # "0.0"
      [] OTHER -> TRUE

\* Mutant: the scene is activated without the test for a configured one.
activate_goodmorning_lights_scene_unchecked(st) ==
    turn_on(st, st.self.goodmorning_lights_scene)

activate_goodmorning_lights_scene(st) ==
    IF ~Truthy(st.self.goodmorning_lights_scene)
    THEN log(st, "WARNING")
    ELSE turn_on(st, st.self.goodmorning_lights_scene)

\* Mutant: the state flag is read the wrong way round.
turn_warm_water_inverted(st, state) ==
    IF state THEN turn_off(st, st.self.warm_water_entity)
             ELSE turn_on(st, st.self.warm_water_entity)

turn_warm_water(st, state) ==
    IF state THEN turn_on(st, st.self.warm_water_entity)
             ELSE turn_off(st, st.self.warm_water_entity)

\* ------------------------------------------------------------- configuration
\* self.args.get(key, default)
args_get(key, default) == IF args[key] = Absent THEN default ELSE args[key]

\* Mutant: the aliases are never looked up.
FirstAlias_ignored(aliases) == None

\* The first alias that is a key of self.args, or 0.
FirstAlias(aliases) ==
    IF \E i \in 1..Len(aliases) : args[aliases[i]] # Absent
    THEN CHOOSE i \in 1..Len(aliases) :
             /\ args[aliases[i]] # Absent
             /\ \A j \in 1..(i - 1) : args[aliases[j]] = Absent
    ELSE 0

_get_required_arg(st, key, aliases) ==
    LET value0 == args_get(key, PyNone)
        a == IF value0 = PyNone THEN FirstAlias(aliases) ELSE 0
        value == IF a # 0 THEN args_get(aliases[a], PyNone) ELSE value0
    IN Bind(IF a # 0 THEN log(st, "WARNING") ELSE st, LAMBDA st1 :
           IF value = PyNone
           THEN raise(log(st1, "ERROR"), "ValueError")
           ELSE [st1 EXCEPT !.ret = value])

\* The texts int() accepts, with their values.
IntLiterals == {"30"}
IntOfLiteral(text) == CASE text = "30" -> 30 [] OTHER -> 0

\* int(value): ok is FALSE where Python raises TypeError or ValueError.
int(value) ==
    CASE value.ty = "int" -> [ok |-> TRUE, v |-> value.v]
      [] value.ty = "float" -> [ok |-> TRUE, v |-> value.v]
      [] value.ty = "str" /\ value.s \in IntLiterals ->
             [ok |-> TRUE, v |-> IntOfLiteral(value.s)]
      [] OTHER -> [ok |-> FALSE, v |-> 0]

_get_int_arg(st, key, default) ==
    LET value == args_get(key, default)
    IN IF value = PyNone
       THEN raise(log(st, "ERROR"), "ValueError")
       ELSE IF int(value).ok
            THEN [st EXCEPT !.ret = int(value).v]
            ELSE raise(log(st, "ERROR"), "ValueError")

\* The attributes of the app before initialize has run.
NoSelf == [turn_off_lights_scene |-> PyNone, warm_water_entity |-> PyNone,
           awake_state_entity |-> PyNone, next_awake_entity |-> PyNone,
           prep_offset_minutes |-> 0, goodmorning_lights_scene |-> PyNone,
           _local_tz |-> 0, _prep_timer_handle |-> None,
           _prep_end_timer_handle |-> None]

\* initialize, with local_tz the UTC offset (minutes) of the process's timezone.
initialize(st, local_tz) ==
    Bind(_get_required_arg(log(st, "INFO"), "turn_off_lights_scene",
                           <<"turn_off_ligts_scene">>), LAMBDA r1 :
    IF r1.exc # "" THEN r1 ELSE
    Bind(_get_required_arg([r1 EXCEPT !.self.turn_off_lights_scene = r1.ret],
                           "ww_activate", <<>>), LAMBDA r2 :
    IF r2.exc # "" THEN r2 ELSE
    Bind(_get_required_arg([r2 EXCEPT !.self.warm_water_entity = r2.ret],
                           "awake_state", <<>>), LAMBDA r3 :
    IF r3.exc # "" THEN r3 ELSE
    Bind(_get_required_arg([r3 EXCEPT !.self.awake_state_entity = r3.ret],
                           "next_awake_time", <<>>), LAMBDA r4 :
    IF r4.exc # "" THEN r4 ELSE
    Bind(_get_int_arg([r4 EXCEPT !.self.next_awake_entity = r4.ret],
                      "prep_offset_minutes", PyNone), LAMBDA r5 :
    IF r5.exc # "" THEN r5 ELSE
    Bind([r5 EXCEPT !.self.prep_offset_minutes = r5.ret,
                    !.self.goodmorning_lights_scene =
                        args_get("goodmorning_lights_scene", PyNone),
                    !.self._local_tz = local_tz,
                    !.self._prep_timer_handle = None,
                    !.self._prep_end_timer_handle = None], LAMBDA s5 :
    Bind(listen_state(s5, "goodnight_triggered", s5.self.awake_state_entity, "sleep"),
         LAMBDA s6 :
    Bind(listen_state(s6, "awake_triggered", s6.self.awake_state_entity, "awake"),
         LAMBDA s7 :
    log(listen_state(s7, "next_awake_set", s7.self.next_awake_entity, ""), "INFO")
    ))))))))

\* ------------------------------------------------------------- wake-time values
\* A value of the next-wake-time entity: a date and time of day (wall, in
\* ticks, read as if UTC) followed by a timezone suffix, or text that is no
\* timestamp (shape "garbage", such as "not-a-date").
WakeWalls == {7 * GridStep, 12 * GridStep}
WakeValues ==
    {[shape |-> "iso", wall |-> w, tz |-> z] : w \in WakeWalls, z \in {"", "Z"}}
    \cup {[shape |-> "iso", wall |-> 12 * GridStep, tz |-> "+0015"],
          [shape |-> "garbage", wall |-> 0, tz |-> ""]}
NoValue == [shape |-> "", wall |-> 0, tz |-> ""]

\* raw[:-1] + "+00:00" for a text that ends in "Z"
ReplaceZ(raw) == IF raw.tz = "Z" THEN [raw EXCEPT !.tz = "+00:00"] ELSE raw

\* datetime.fromisoformat: a suffix, if any, must read +HH:MM.
fromisoformat(raw) == raw.shape = "iso" /\ raw.tz \in {"", "+00:00", "+00:15"}

\* Mutant: strptime takes any text for a timestamp.
strptime_lenient(raw) == TRUE

\* datetime.strptime with one of the four formats: %z also reads +HHMM.
strptime(raw) == raw.shape = "iso" /\ raw.tz \in {"", "+00:00", "+00:15", "+0015"}

\* The UTC offset, in minutes, a suffix stands for.
TzMinutes(tz) == CASE tz \in {"+00:15", "+0015"} -> 15 [] OTHER -> 0

\* _parse_next_awake_time: ret is the instant, in ticks; ValueError otherwise.
_parse_next_awake_time(st, value) ==
    LET raw == ReplaceZ(value)
        offset == IF raw.tz = "" THEN st.self._local_tz ELSE TzMinutes(raw.tz)
    IN IF fromisoformat(raw) \/ strptime(raw)
       THEN [st EXCEPT !.ret = raw.wall - offset * Minute]
       ELSE raise(st, "ValueError")

\* ------------------------------------------------------------- DailyRoutines.py
\* Mutant: the previous prep-end timer is left armed.
cancel_previous_prep_end_skipped(st) == st

\* The cancellation of the previous prep-end timer in awake_preparation_tasks.
cancel_previous_prep_end(st) ==
    IF st.self._prep_end_timer_handle # None
    THEN cancel_timer(log(st, "DEBUG"), st.self._prep_end_timer_handle)
    ELSE st

\* Mutant: the handle of the fired prep timer is kept.
awake_preparation_tasks_keeps_prep_handle(st) ==
    Bind(turn_warm_water(log(st, "INFO"), TRUE), LAMBDA s2 :
    Bind(cancel_previous_prep_end(s2), LAMBDA s3 :
    Bind(run_in(s3, "awake_preparation_tasks_end", FIVE_MINUTES_SECONDS), LAMBDA s4 :
    log([s4 EXCEPT !.self._prep_end_timer_handle = s4.ret], "DEBUG"))))

awake_preparation_tasks(st) ==
    Bind([log(st, "INFO") EXCEPT !.self._prep_timer_handle = None], LAMBDA s1 :
    Bind(turn_warm_water(s1, TRUE), LAMBDA s2 :
    Bind(cancel_previous_prep_end(s2), LAMBDA s3 :
    Bind(run_in(s3, "awake_preparation_tasks_end", FIVE_MINUTES_SECONDS), LAMBDA s4 :
    log([s4 EXCEPT !.self._prep_end_timer_handle = s4.ret], "DEBUG")))))

\* Mutant: the handle of the fired prep-end timer is kept.
awake_preparation_tasks_end_keeps_handle(st) ==
    turn_warm_water(log(st, "INFO"), FALSE)

\* Mutant: the handle is cleared and warm water is left as it is.
awake_preparation_tasks_end_no_off(st) ==
    [log(st, "INFO") EXCEPT !.self._prep_end_timer_handle = None]

awake_preparation_tasks_end(st) ==
    Bind(turn_warm_water(log(st, "INFO"), FALSE), LAMBDA s1 :
        [s1 EXCEPT !.self._prep_end_timer_handle = None])

\* Mutant: the delay is rounded up to the next whole second.
seconds_until_rounded_up(prep_time, current_time) ==
    (prep_time - current_time + Second - 1) \div Second

\* Mutant: the difference is taken the wrong way round.
seconds_until_swapped(prep_time, current_time) ==
    (current_time - prep_time) \div Second

\* int((prep_time - current_time).total_seconds())
seconds_until(prep_time, current_time) == (prep_time - current_time) \div Second

\* Mutant: the handle is dropped and the timer left armed.
cancel_pending_prep_forgets_timer(st) ==
    [st EXCEPT !.self._prep_timer_handle = None]

\* Mutant: a pending prep timer is kept instead of being cancelled.
cancel_pending_prep_keeps(st) == st

\* The cancellation of the pending prep timer in next_awake_set.
cancel_pending_prep(st) ==
    IF st.self._prep_timer_handle # None
    THEN [cancel_timer(log(st, "DEBUG"), st.self._prep_timer_handle)
             EXCEPT !.self._prep_timer_handle = None]
    ELSE st

\* Mutant: a preparation is taken to be running whenever one has been asked for.
preparation_running_always(st) == TRUE

\* Mutant: a preparation is never taken to be running.
preparation_running_never(st) == FALSE

\* The test of next_awake_set for a preparation in progress.
preparation_running(st) == st.self._prep_end_timer_handle # None

\* Mutant: the wake instant itself still counts as inside the window.
window_branch_inclusive(current_time, prep_time, next_awake_time) ==
    IF current_time < prep_time THEN "before"
    ELSE IF current_time <= next_awake_time THEN "window" ELSE "after"

\* Mutant: the prep timer is armed whatever the time is.
window_branch_always_before(current_time, prep_time, next_awake_time) == "before"

\* The three-way comparison of next_awake_set.
window_branch(current_time, prep_time, next_awake_time) ==
    IF current_time < prep_time THEN "before"
    ELSE IF current_time < next_awake_time THEN "window" ELSE "after"

next_awake_set(st, new) ==
    Bind(_parse_next_awake_time(log(st, "DEBUG"), new), LAMBDA p :
    IF p.exc = "ValueError" THEN log([p EXCEPT !.exc = ""], "ERROR") ELSE
    LET next_awake_time == p.ret
        prep_time == next_awake_time - p.self.prep_offset_minutes * Minute
        current_time == now
    IN Bind(log([p EXCEPT !.wake = next_awake_time], "DEBUG"), LAMBDA s1 :
       Bind(cancel_pending_prep(s1), LAMBDA s2 :
       Bind(window_branch(current_time, prep_time, next_awake_time), LAMBDA branch :
       CASE branch = "before" ->
                Bind(run_in(s2, "awake_preparation_tasks",
                            seconds_until(prep_time, current_time)), LAMBDA sched :
                log([sched EXCEPT !.self._prep_timer_handle = sched.ret], "INFO"))
         [] branch = "window" ->
                IF preparation_running(s2)
                THEN log(s2, "DEBUG")
                ELSE awake_preparation_tasks(log(s2, "DEBUG"))
         [] OTHER -> log(s2, "DEBUG")))))

\* Mutant: warm water is switched off before the scene is activated.
goodnight_triggered_water_first(st) ==
    Bind(turn_warm_water(st, FALSE), LAMBDA s1 :
        log(activate_turn_off_lights_scene(s1), "INFO"))

goodnight_triggered(st) ==
    Bind(activate_turn_off_lights_scene(st), LAMBDA s1 :
        log(turn_warm_water(s1, FALSE), "INFO"))

awake_triggered(st) == log(activate_goodmorning_lights_scene(st), "INFO")

\* ------------------------------------------------------------- the host's steps
\* What ev remembers of a step: the callback the host ran, its input, the
\* time, and the handles and timers the callback found.
Event(callback, value, fired) ==
    [callback |-> callback, value |-> value, at |-> now, fired |-> fired,
     prep |-> self._prep_timer_handle, prep_end |-> self._prep_end_timer_handle,
     timers |-> timers]

\* The variables take the values the callback left in its machine.
Commit(st) ==
    /\ self' = st.self
    /\ listeners' = st.listeners
    /\ timers' = st.timers
    /\ calls' = st.calls
    /\ ops' = st.ops
    /\ logs' = st.logs
    /\ raised' = st.exc
    /\ ww' = st.ww
    /\ wake' = st.wake

Subscribed(callback) == \E l \in listeners : l.callback = callback

Init ==
    /\ args \in ArgSets
    /\ phase = "new"
    /\ self = NoSelf
    /\ listeners = {}
    /\ timers = {}
    /\ now = 0
    /\ calls = <<>>
    /\ ops = <<>>
    /\ logs = <<>>
    /\ raised = ""
    /\ ev = Event("", NoValue, None)
    /\ ww = "none"
    /\ wake = None

\* The host loads the app and calls initialize.
Initialize ==
    /\ phase = "new"
    /\ \E local_tz \in LocalTzMinutes :
           \E st \in {initialize(Machine, local_tz)} :
               /\ Commit(st)
               /\ phase' = IF st.exc = "" THEN "running" ELSE "failed"
    /\ ev' = Event("initialize", NoValue, None)
    /\ UNCHANGED <<args, now>>

\* The next-wake-time entity changes to `new`.
NextAwakeSet ==
    /\ Subscribed("next_awake_set")
    /\ \E new \in WakeValues :
           /\ \E st \in {next_awake_set(Machine, new)} : Commit(st)
           /\ ev' = Event("next_awake_set", new, None)
    /\ UNCHANGED <<args, phase, now>>

\* A timer whose delay has elapsed fires: the host drops it and runs its callback.
FireTimer ==
    /\ \E t \in timers :
           /\ t.at <= now
           /\ \E st \in {[Machine EXCEPT !.timers = @ \ {t}]} :
                  \E done \in {IF t.callback = "awake_preparation_tasks"
                                THEN awake_preparation_tasks(st)
                                ELSE awake_preparation_tasks_end(st)} :
                      Commit(done)
           /\ ev' = Event(t.callback, NoValue, t.handle)
    /\ UNCHANGED <<args, phase, now>>

\* The sleep/awake entity changes to "sleep".
GoodnightTriggered ==
    /\ Subscribed("goodnight_triggered")
    /\ \E st \in {goodnight_triggered(Machine)} : Commit(st)
    /\ ev' = Event("goodnight_triggered", NoValue, None)
    /\ UNCHANGED <<args, phase, now>>

\* The sleep/awake entity changes to "awake".
AwakeTriggered ==
    /\ Subscribed("awake_triggered")
    /\ \E st \in {awake_triggered(Machine)} : Commit(st)
    /\ ev' = Event("awake_triggered", NoValue, None)
    /\ UNCHANGED <<args, phase, now>>

\* Time passes, to a grid instant or to the instant a timer is due, and never
\* past the instant an armed timer is due.
Advance ==
    /\ phase = "running"
    /\ \E t \in GridTimes \cup {x.at : x \in timers} :
           /\ t > now
           /\ \A x \in timers : t <= x.at
           /\ now' = t
    /\ calls' = <<>>
    /\ ops' = <<>>
    /\ logs' = <<>>
    /\ raised' = ""
    /\ ev' = [Event("", NoValue, None) EXCEPT !.at = now']
    /\ UNCHANGED <<args, phase, self, listeners, timers, ww, wake>>

Next ==
    \/ Initialize
    \/ NextAwakeSet
    \/ FireTimer
    \/ GoodnightTriggered
    \/ AwakeTriggered
    \/ Advance

Spec == Init /\ [][Next]_vars

\* One wake cycle at a time: a wake-time update arrives only while no timer
\* is armed, the host lets time pass and fires every timer that is due.
NextAwakeSetWhenIdle ==
    /\ timers = {}
    /\ NextAwakeSet

NextCycle ==
    \/ Initialize
    \/ NextAwakeSetWhenIdle
    \/ FireTimer
    \/ GoodnightTriggered
    \/ AwakeTriggered
    \/ Advance

CycleSpec == Init /\ [][NextCycle]_vars /\ WF_vars(FireTimer) /\ WF_vars(Advance)

\* Every interleaving, with the host letting time pass and firing every
\* timer that is due.
FairSpec == Init /\ [][Next]_vars /\ WF_vars(FireTimer) /\ WF_vars(Advance)

\* ------------------------------------------------------------- vocabulary of the properties
PrepTimers(ts) == {t \in ts : t.callback = "awake_preparation_tasks"}
PrepEndTimers(ts) == {t \in ts : t.callback = "awake_preparation_tasks_end"}

WarmWaterOn == [service |-> "turn_on", entity |-> self.warm_water_entity]
WarmWaterOff == [service |-> "turn_off", entity |-> self.warm_water_entity]
LightsOff == [service |-> "turn_on", entity |-> self.turn_off_lights_scene]

\* The last step was the callback cb.
Ran(cb) == ev.callback = cb
\* The last step was a wake-time update whose value is a timestamp.
Updated == Ran("next_awake_set") /\ ev.value.shape = "iso"
\* The last step was a wake-time update whose value is no timestamp.
Malformed == Ran("next_awake_set") /\ ev.value.shape = "garbage"
\* The prep instant T - m of the last parsed update, in ticks.
PrepInstant == wake - self.prep_offset_minutes * Minute

\* The last callback cancelled handle h / armed a timer for cb (the delays).
Cancelled(h) == \E i \in 1..Len(ops) : ops[i].op = "cancel_timer" /\ ops[i].handle = h
ArmedDelays(cb) == {ops[i].delay : i \in {j \in 1..Len(ops) :
                        ops[j].op = "run_in" /\ ops[j].callback = cb}}
ArmedCount(cb) == Cardinality({j \in 1..Len(ops) :
                        ops[j].op = "run_in" /\ ops[j].callback = cb})
ArmedNothing == \A i \in 1..Len(ops) : ops[i].op # "run_in"

\* The callback left both handles and every timer as it found them.
TimersUntouched ==
    /\ timers = ev.timers
    /\ self._prep_timer_handle = ev.prep
    /\ self._prep_end_timer_handle = ev.prep_end
    /\ ops = <<>>

\* ------------------------------------------------------------- properties
\* C1: in every reachable state the host holds at most one live prep_timer
\* and at most one live prep_end_timer.
C1_AtMostOneLiveTimerEach ==
    /\ Cardinality(PrepTimers(timers)) <= 1
    /\ Cardinality(PrepEndTimers(timers)) <= 1

\* C1 witness: an update found a prep_timer pending while a prep_end_timer
\* was live, and re-armed; one of each is live.
C1_Witness ==
    /\ Updated /\ ev.prep # None /\ ev.prep_end # None
    /\ Cancelled(ev.prep) /\ ArmedCount("awake_preparation_tasks") = 1
    /\ Cardinality(PrepTimers(timers)) = 1
    /\ Cardinality(PrepEndTimers(timers)) = 1

\* C2: a wake-time update handled at now < T - m leaves exactly one live
\* prep_timer, armed with a delay of the whole seconds of (T - m) - now; a
\* prep_timer pending before is cancelled; the update issues no device action.
C2_UpdateBeforeWindowArmsOne ==
    (Updated /\ ev.at < PrepInstant) =>
        LET delay == (PrepInstant - ev.at) \div Second
        IN /\ PrepTimers(timers) =
                  {[handle |-> self._prep_timer_handle,
                    callback |-> "awake_preparation_tasks",
                    at |-> ev.at + delay * Second]}
           /\ self._prep_timer_handle # None
           /\ ArmedCount("awake_preparation_tasks") = 1
           /\ ArmedDelays("awake_preparation_tasks") = {delay}
           /\ delay * Second <= PrepInstant - ev.at
           /\ PrepInstant - ev.at < (delay + 1) * Second
           /\ (ev.prep # None => Cancelled(ev.prep))
           /\ calls = <<>>

\* C2 witness: offset 30 minutes, the update for a wake instant 60 minutes
\* ahead arms a timer of 1800 seconds, a pending prep_timer being replaced.
C2_Witness ==
    /\ Updated /\ ev.at < PrepInstant /\ ev.prep # None
    /\ self.prep_offset_minutes = 30
    /\ wake - ev.at = 60 * Minute
    /\ ArmedDelays("awake_preparation_tasks") = {1800}

\* C3: a wake-time update handled at T - m <= now < T with no prep_end_timer
\* live runs the preparation-begin action once, inside the handler: one
\* warm-water ON, a prep_end_timer armed, no prep_timer live afterwards.
C3_UpdateInWindowStartsOnce ==
    (Updated /\ PrepInstant <= ev.at /\ ev.at < wake
             /\ PrepEndTimers(ev.timers) = {}) =>
        /\ calls = <<WarmWaterOn>>
        /\ ArmedCount("awake_preparation_tasks_end") = 1
        /\ Cardinality(PrepEndTimers(timers)) = 1
        /\ \A t \in PrepEndTimers(timers) : t.handle = self._prep_end_timer_handle
        /\ PrepTimers(timers) = {}
        /\ self._prep_timer_handle = None

\* C3 witness: the update in the window found a prep_timer pending and no
\* preparation in progress.
C3_Witness ==
    /\ Updated /\ PrepInstant <= ev.at /\ ev.at < wake
    /\ PrepEndTimers(ev.timers) = {} /\ ev.prep # None
    /\ calls = <<WarmWaterOn>>

\* C4: a wake-time update handled at T - m <= now < T while a prep_end_timer
\* is live starts nothing: no warm-water ON, and the live prep_end_timer is
\* neither cancelled nor re-armed.
C4_UpdateInWindowWhilePreparing ==
    (Updated /\ PrepInstant <= ev.at /\ ev.at < wake
             /\ PrepEndTimers(ev.timers) # {}) =>
        /\ calls = <<>>
        /\ PrepEndTimers(timers) = PrepEndTimers(ev.timers)
        /\ self._prep_end_timer_handle = ev.prep_end
        /\ ~Cancelled(ev.prep_end)
        /\ ArmedNothing

\* C4 witness: such an update, with the prep_end_timer still live after it.
C4_Witness ==
    /\ Updated /\ PrepInstant <= ev.at /\ ev.at < wake
    /\ PrepEndTimers(ev.timers) # {}
    /\ PrepEndTimers(timers) # {}

\* C5: a wake-time update whose value cannot be parsed leaves both handles
\* and all timers as they were, issues no device command, logs an error and
\* lets no exception out.
C5_MalformedChangesNothing ==
    Malformed =>
        /\ TimersUntouched
        /\ calls = <<>>
        /\ \E i \in 1..Len(logs) : logs[i] = "ERROR"
        /\ raised = ""

\* C5 witness: a malformed update arrived while both timers were live.
C5_Witness ==
    /\ Malformed
    /\ PrepTimers(timers) # {} /\ PrepEndTimers(timers) # {}

\* The last step ran the preparation-begin action (from the timer, or inside
\* the wake-time handler, which issues warm-water ON nowhere else).
BeganPreparation ==
    \/ Ran("awake_preparation_tasks")
    \/ Ran("next_awake_set") /\ \E i \in 1..Len(calls) : calls[i] = WarmWaterOn

\* C6: every run of the preparation-begin action issues warm-water ON,
\* cancels the prep_end_timer that was live, and arms a new one for 300
\* seconds later; one prep_end_timer is live afterwards and the prep_timer
\* handle is clear.
C6_BeginArmsEndTimer ==
    BeganPreparation =>
        /\ calls = <<WarmWaterOn>>
        /\ (ev.prep_end # None => Cancelled(ev.prep_end))
        /\ ArmedDelays("awake_preparation_tasks_end") = {300}
        /\ ArmedCount("awake_preparation_tasks_end") = 1
        /\ PrepEndTimers(timers) =
               {[handle |-> self._prep_end_timer_handle,
                 callback |-> "awake_preparation_tasks_end",
                 at |-> ev.at + 300 * Second]}
        /\ self._prep_end_timer_handle # None
        /\ self._prep_timer_handle = None

\* C6 witness: the prep_timer fired while an earlier prep_end_timer was live,
\* and that one was cancelled.
C6_Witness ==
    /\ Ran("awake_preparation_tasks")
    /\ ev.prep_end # None /\ Cancelled(ev.prep_end)
    /\ PrepEndTimers(ev.timers) # {}
    /\ PrepEndTimers(timers) # PrepEndTimers(ev.timers)

\* C6 witness, second case: the action ran inside the wake-time handler.
C6_WitnessSynchronous ==
    Ran("next_awake_set") /\ BeganPreparation

\* C7: every firing of the prep_end_timer issues warm-water OFF and clears
\* the prep_end_timer handle; no prep_end_timer is live afterwards and the
\* prep_timer is not touched.
C7_EndTurnsOffAndClears ==
    Ran("awake_preparation_tasks_end") =>
        /\ calls = <<WarmWaterOff>>
        /\ self._prep_end_timer_handle = None
        /\ PrepEndTimers(timers) = {}
        /\ PrepTimers(timers) = PrepTimers(ev.timers)
        /\ self._prep_timer_handle = ev.prep
        /\ ops = <<>>

\* C7 witness: the prep_end_timer fired while a prep_timer was pending.
C7_Witness ==
    /\ Ran("awake_preparation_tasks_end")
    /\ PrepTimers(timers) # {}

\* C8 as stated, its clause about the state afterwards: after a wake-time
\* update handled at now >= T no device action has been issued and no
\* prep_end_timer is live, whatever the state was before.
C8_Original ==
    (Updated /\ ev.at >= wake) =>
        /\ calls = <<>>
        /\ PrepEndTimers(timers) = {}

\* C8 as stated, its clause about arming: a wake-time update handled at
\* now >= T arms no timer. A negative offset refutes it.
C8_OriginalArmsNothing ==
    (Updated /\ ev.at >= wake) => ArmedNothing /\ PrepTimers(timers) = {}

\* C8 amended: a wake-time update handled at now >= T and now >= T - m (the
\* second follows from the first unless the offset is negative) issues no
\* device action, arms no timer and leaves no prep_timer live; a
\* prep_end_timer live before it stays live, unchanged, so that the scheduler
\* is Idle afterwards exactly when no preparation was in progress.
C8_UpdateAfterWakeNoAction ==
    (Updated /\ ev.at >= wake /\ ev.at >= PrepInstant) =>
        /\ calls = <<>>
        /\ ArmedNothing
        /\ PrepTimers(timers) = {}
        /\ self._prep_timer_handle = None
        /\ PrepEndTimers(timers) = PrepEndTimers(ev.timers)
        /\ self._prep_end_timer_handle = ev.prep_end
        /\ (ev.prep # None => Cancelled(ev.prep))

\* C8 witness: the update came after the wake instant while a preparation
\* was in progress and a prep_timer pending.
C8_Witness ==
    /\ Updated /\ ev.at >= wake /\ ev.at >= PrepInstant
    /\ ev.prep # None
    /\ PrepEndTimers(timers) # {}

\* C10: a transition to "sleep" issues the lights-off scene activation and
\* then warm-water OFF, and leaves both timers and both handles unchanged.
C10_GoodnightLeavesTimers ==
    Ran("goodnight_triggered") =>
        /\ calls = <<LightsOff, WarmWaterOff>>
        /\ TimersUntouched

\* C10 witness: the transition to "sleep" came with both timers live.
C10_Witness ==
    /\ Ran("goodnight_triggered")
    /\ PrepTimers(timers) # {} /\ PrepEndTimers(timers) # {}

\* An update handled in state Idle before the prep instant has just armed the
\* prep_timer.
Scheduled ==
    /\ Updated /\ ev.at < PrepInstant /\ ev.timers = {}
    /\ PrepTimers(timers) # {} /\ PrepEndTimers(timers) = {}

\* The prep_timer has just fired, at the instant it was armed for: warm-water
\* ON is issued and a prep_end_timer of 300 seconds is armed.
Began ==
    /\ Ran("awake_preparation_tasks")
    /\ \E t \in PrepTimers(ev.timers) : t.handle = ev.fired /\ t.at = ev.at
    /\ calls = <<WarmWaterOn>>
    /\ ArmedDelays("awake_preparation_tasks_end") = {300}
    /\ PrepTimers(timers) = {}
    /\ \A t \in PrepEndTimers(timers) : t.at = ev.at + 300 * Second

\* The prep_end_timer has just fired, at the instant it was armed for:
\* warm-water OFF is issued and the scheduler is Idle.
Ended ==
    /\ Ran("awake_preparation_tasks_end")
    /\ \E t \in PrepEndTimers(ev.timers) : t.handle = ev.fired /\ t.at = ev.at
    /\ calls = <<WarmWaterOff>>
    /\ timers = {}
    /\ self._prep_timer_handle = None /\ self._prep_end_timer_handle = None

\* C9 as stated, its part about the instant: when the prep_timer of a cycle
\* fires, the time is T - m.
C9_Original ==
    Ran("awake_preparation_tasks") => ev.at = PrepInstant

\* C9 amended: from Idle, after a wake-time update for T handled at
\* now < T - m and with no further update, the prep_timer fires at the
\* instant it was armed for, which is T - m or less than a second before it,
\* warm-water ON is issued and a 300-second prep_end_timer armed; then the
\* prep_end_timer fires and warm-water OFF is issued; then no timer is live.
\* The prep_end_timer is never live while the prep_timer is.
C9_CycleInOrder ==
    /\ [](PrepTimers(timers) # {} => PrepEndTimers(timers) = {})
    /\ [](Ran("awake_preparation_tasks") =>
              /\ Began
              /\ PrepInstant - Second < ev.at /\ ev.at <= PrepInstant)
    /\ [](Ran("awake_preparation_tasks_end") => Ended)
    /\ (Scheduled ~> Began)
    /\ (Began ~> Ended)

\* C9 witness: a cycle that went from Scheduled through Began has Ended, the
\* prep_timer having fired a fraction of a second before T - m.
C9_Witness ==
    /\ Ended
    /\ wake # None
    /\ PrepInstant - Second < ev.at - 300 * Second
    /\ ev.at - 300 * Second < PrepInstant

\* C11: a transition to "awake" activates the good-morning scene exactly
\* once when one is configured; when none is configured it logs a warning,
\* issues no device command and raises nothing. Both timers stay as they were.
GoodMorningConfigured ==
    /\ args["goodmorning_lights_scene"] # Absent
    /\ args["goodmorning_lights_scene"].s # ""
C11_AwakeActivatesConfiguredScene ==
    Ran("awake_triggered") =>
        /\ TimersUntouched
        /\ raised = ""
        /\ IF GoodMorningConfigured
           THEN calls = <<[service |-> "turn_on",
                           entity |-> args["goodmorning_lights_scene"]]>>
           ELSE /\ calls = <<>>
                /\ \E i \in 1..Len(logs) : logs[i] = "WARNING"

\* C11 witness: "awake" arrived with no scene configured while both timers
\* were live.
C11_Witness ==
    /\ Ran("awake_triggered") /\ ~GoodMorningConfigured
    /\ PrepTimers(timers) # {} /\ PrepEndTimers(timers) # {}

\* C11 witness, second case: "awake" arrived with a scene configured.
C11_WitnessConfigured ==
    Ran("awake_triggered") /\ GoodMorningConfigured /\ Len(calls) = 1

\* A required configuration key is absent (the lights-off scene under both
\* of its names).
RequiredKeyAbsent ==
    \/ args["turn_off_lights_scene"] = Absent /\ args["turn_off_ligts_scene"] = Absent
    \/ \E k \in {"ww_activate", "awake_state", "next_awake_time",
                 "prep_offset_minutes"} : args[k] = Absent
\* The configured offset is an integer, or a text that reads as one.
OffsetIsInteger ==
    \/ args["prep_offset_minutes"].ty = "int"
    \/ args["prep_offset_minutes"].ty = "str"
       /\ args["prep_offset_minutes"].s \in IntLiterals
\* initialize has failed: error logged, ValueError raised to the host, nothing
\* subscribed and no timer armed.
InitializeFailed ==
    /\ phase = "failed"
    /\ raised = "ValueError"
    /\ \E i \in 1..Len(logs) : logs[i] = "ERROR"
    /\ listeners = {}
    /\ timers = {}

\* C12: if a required configuration key is absent, or prep_offset_minutes is
\* not an integer value, initialize logs an error and raises, with no
\* subscription registered and no timer armed.
C12_BadConfigurationFails ==
    (Ran("initialize") /\ (RequiredKeyAbsent \/ ~OffsetIsInteger)) => InitializeFailed

\* C12, the part the code keeps: a missing required key, or an offset that
\* int() rejects (a text that is no integer), makes initialize fail.
C12_RejectedConfigurationFails ==
    (Ran("initialize") /\ (RequiredKeyAbsent \/ ~int(args["prep_offset_minutes"]).ok))
        => InitializeFailed

\* C13: the lights-off scene is the value of turn_off_lights_scene when that
\* key is present; the legacy key turn_off_ligts_scene is used, with a
\* warning, only when it is absent; with both absent initialize fails.
C13_LightsOffSceneSource ==
    Ran("initialize") =>
        CASE args["turn_off_lights_scene"] # Absent ->
                 /\ self.turn_off_lights_scene = args["turn_off_lights_scene"]
                 /\ \A i \in 1..Len(logs) : logs[i] # "WARNING"
          [] args["turn_off_ligts_scene"] # Absent ->
                 /\ self.turn_off_lights_scene = args["turn_off_ligts_scene"]
                 /\ \E i \in 1..Len(logs) : logs[i] = "WARNING"
                 /\ phase = "running"
          [] OTHER -> InitializeFailed /\ self.turn_off_lights_scene = PyNone

\* C13 witness: only the legacy key is configured and its scene is in use.
C13_Witness ==
    /\ Ran("initialize")
    /\ args["turn_off_lights_scene"] = Absent
    /\ self.turn_off_lights_scene = PyStr("scene.legacy_off")

\* C13 witness, second case: both keys are configured and the legacy one is
\* not used.
C13_WitnessBoth ==
    /\ Ran("initialize")
    /\ args["turn_off_lights_scene"] # Absent /\ args["turn_off_ligts_scene"] # Absent
    /\ self.turn_off_lights_scene = args["turn_off_lights_scene"]

\* A prep_timer and a prep_end_timer are live at the same instant.
BothLive == PrepTimers(timers) # {} /\ PrepEndTimers(timers) # {}

\* C14 as stated: the prep_timer and the prep_end_timer are never live at the
\* same instant.
C14_Original == ~BothLive

\* C14 amended: at most one prep_timer and at most one prep_end_timer is
\* live in every reachable state, and the two are live together exactly after
\* a wake-time update handled at now < T - m while a preparation is in
\* progress: such an update always leaves both live, with the prep_end_timer
\* unchanged, and no other step makes both live.
C14_OverlapOnlyByEarlyUpdate ==
    /\ [](Cardinality(PrepTimers(timers)) + Cardinality(PrepEndTimers(timers)) <= 2
          /\ Cardinality(PrepTimers(timers)) <= 1
          /\ Cardinality(PrepEndTimers(timers)) <= 1)
    /\ []((Updated /\ ev.at < PrepInstant /\ PrepEndTimers(ev.timers) # {}) => BothLive)
    /\ [][(~BothLive /\ BothLive') =>
              /\ Updated' /\ ev'.at < PrepInstant'
              /\ PrepEndTimers(timers) # {}
              /\ PrepEndTimers(timers') = PrepEndTimers(timers)]_vars

\* C14 witness: an update before its window, handled while only the
\* prep_end_timer was live, has left both timers live.
C14_Witness ==
    /\ Updated /\ ev.at < PrepInstant
    /\ PrepTimers(ev.timers) = {} /\ PrepEndTimers(ev.timers) # {}
    /\ BothLive

C16_HandlesAgree ==
    /\ (self._prep_timer_handle # None) <=> (PrepTimers(timers) # {})
    /\ \A t \in PrepTimers(timers) : t.handle = self._prep_timer_handle
    /\ (self._prep_end_timer_handle # None) <=> (PrepEndTimers(timers) # {})
    /\ \A t \in PrepEndTimers(timers) : t.handle = self._prep_end_timer_handle

\* C16 witness: the prep_timer has fired while a prep_end_timer was live; the
\* prep handle is clear and the prep-end handle is that of the new timer.
C16_Witness ==
    /\ Ran("awake_preparation_tasks") /\ ev.prep_end # None
    /\ self._prep_timer_handle = None
    /\ \E t \in timers : t.handle = self._prep_end_timer_handle
                         /\ t.at = ev.at + 300 * Second

C18_Original ==
    BeganPreparation => (PrepInstant <= ev.at /\ ev.at < wake)

\* C18 amended: a preparation started by the prep_timer starts at the instant
\* the timer was armed for, T - m or less than a second before it, T being
\* the last parsed wake instant; one started inside the wake-time handler
\* starts at T - m <= t < T; with an offset above zero both start before T.
C18_PreparationStartsAtWindow ==
    /\ Ran("awake_preparation_tasks") =>
           /\ PrepInstant - Second < ev.at /\ ev.at <= PrepInstant
           /\ \E t \in PrepTimers(ev.timers) : t.handle = ev.fired /\ t.at = ev.at
    /\ (Ran("next_awake_set") /\ BeganPreparation) =>
           (PrepInstant <= ev.at /\ ev.at < wake)
    /\ (BeganPreparation /\ self.prep_offset_minutes > 0) => ev.at < wake

\* C18 witness: the prep_timer fired a fraction of a second before T - m.
C18_Witness ==
    /\ Ran("awake_preparation_tasks")
    /\ ev.at < PrepInstant
    /\ self.prep_offset_minutes > 0

\* C18 witness, second case: with a negative offset the preparation started
\* after the wake instant.
C18_WitnessNegativeOffset ==
    Ran("awake_preparation_tasks") /\ ev.at > wake

====
